---- MODULE Spec2Model ----
(***************************************************************************)
(* Verification model of the employee-record manager:                      *)
(*   - the coordinator (App.tsx): list/search requests with the axios      *)
(*     cancel token, create/update/delete handlers, adapter switch and     *)
(*     page navigation;                                                    *)
(*   - the Neon REST adapter's token cache and 401 retry;                  *)
(*   - the adapters' create / update / getById against their backends.     *)
(***************************************************************************)
EXTENDS Integers, Sequences, FiniteSets, TLC

\* ------------------------------------------------------------------------
\* Bounds
\* ------------------------------------------------------------------------
\* number of adapter calls the coordinator issues in one behaviour
MaxReq == 3
\* number of clock steps in one behaviour of the Neon adapter
MaxTicks == 3
\* number of access tokens the auth endpoint issues in one behaviour
MaxTokens == 3
\* number of adapter operations in one behaviour of the record stores
MaxOps == 3

\* ------------------------------------------------------------------------
\* Coordinator state (App.tsx)
\* ------------------------------------------------------------------------
VARIABLES
  apiType,         \* useState(ApiType.GOOGLE_SHEETS)
  activePage,      \* useState('records')
  searchName,      \* useState(''), a sequence of characters
  records,         \* useState([]): [len |-> number of records in the list]
  editingRecord,   \* useState(null): TRUE when a record is being edited
  loading,         \* useState(false)
  init,            \* useState(false)
  error,           \* useState('')
  success,         \* useState('')
  cancelTokenRef,  \* useRef(null): call whose CancelTokenSource is current, 0 = null
  calls,           \* every adapter call issued so far, in order of issue
  useMockData      \* GoogleSheetsAPIService.useMockData

coordVars == <<apiType, activePage, searchName, records, editingRecord, loading,
               init, error, success, cancelTokenRef, calls, useMockData>>

\* Neon REST adapter state (NeonAPIService) and one makeAuthenticatedRequest
VARIABLES
  now,                 \* Date.now(), in milliseconds since the service was built
  ticks,               \* clock steps taken
  currentAccessToken,  \* the cached token, 0 = null
  tokenExpiresAt,      \* its stored expiry
  issued,              \* tokens the auth endpoint has issued
  pc,                  \* where the call is: idle, auth, request, refresh, retry, done
  bearer,              \* the token of the Authorization header
  cancelToken,         \* the CancelToken argument: none, live or cancelled
  authPosts,           \* posts to the auth endpoint by the call's first getAccessToken
  refreshPosts,        \* posts to the auth endpoint after a 401
  retries,             \* retry requests sent
  got401,              \* the first request answered 401
  retry401,            \* the retry answered 401
  result               \* ok, or the message of the error the call threw

neonVars == <<now, ticks, currentAccessToken, tokenExpiresAt, issued, pc, bearer,
              cancelToken, authPosts, refreshPosts, retries, got401, retry401, result>>

\* the record stores behind the adapters
VARIABLES
  adapter,   \* the adapter under test
  rows,      \* the backend's records, in insertion order
  seq,       \* ids the backend has generated
  ops,       \* operations done
  last,      \* the last operation: its arguments and what it returned
  retired,   \* the ids of the records a delete has removed
  requests,  \* HTTP requests the spreadsheet adapter has sent
  header     \* the sheet's first row holds the column names

storeVars == <<adapter, rows, seq, ops, last, retired, requests, header>>

\* a search on the records of one backend
VARIABLES
  table,     \* the names of the stored records, by id; a name is a sequence of characters
  query,     \* the value searched for
  found      \* the last search: its adapter, match type, value and the ids it returned

searchVars == <<table, query, found>>

\* a backend call that failed under an adapter operation
VARIABLES
  raised     \* the last failure: the adapter, the operation, the backend's message, the error thrown

failVars == <<raised>>

\* createRecord calls of the Firebase adapter running at the same time
VARIABLES
  fbData,      \* the children of the records node: key -> the create call that wrote it
  fbCall,      \* per caller: where its createRecord stands, and what it has read
  fbReturned   \* the create calls that have returned their record

raceVars == <<fbData, fbCall, fbReturned>>

\* the record form and the image storage
VARIABLES
  formRecord,        \* the record prop: the id of the record being edited, 0 for none
  formImage,         \* formData.profile_image, 0 for ''
  imageFile,         \* an image file is selected
  prevProfileImage,  \* 0 for ''
  images,            \* the images in the storage
  profileImage,      \* the stored records' profile_image, by record id; 0 for ''
  uploads,           \* images uploaded
  removed            \* the last deleteImage: the image and the record edited in that submission

formVars == <<formRecord, formImage, imageFile, prevProfileImage, images, profileImage,
              uploads, removed>>

\* the confirmation modal
VARIABLES
  modalState,  \* isOpen and resolveRef: the promise whose resolve it holds, 0 for null
  promises     \* the promises showConfirmation returned: pending, or the value resolved with

modalVars == <<modalState, promises>>

vars == <<coordVars, neonVars, storeVars, searchVars, failVars, raceVars, formVars, modalVars>>

ApiTypes == {"GOOGLE_SHEETS", "NEON", "FIREBASE", "APPWRITE"}
Pages == {"records", "gallery"}
SearchTexts == {<<>>, <<"a">>}
ListKinds == {"list", "search"}
MutationKinds == {"create", "update", "delete"}

\* String.prototype.trim on a sequence of characters
RECURSIVE TrimStart(_)
TrimStart(s) == IF s # <<>> /\ Head(s) = " " THEN TrimStart(Tail(s)) ELSE s

RECURSIVE TrimEnd(_)
TrimEnd(s) ==
  IF s # <<>> /\ s[Len(s)] = " " THEN TrimEnd(SubSeq(s, 1, Len(s) - 1)) ELSE s

Trim(s) == TrimEnd(TrimStart(s))

\* the adapters whose getAllRecords / searchRecords are handed the cancel token
PassesToken(api) == api \in {"NEON", "GOOGLE_SHEETS"}

\* getAllRecords rejects with the cancellation when its token is cancelled:
\* Neon always, the spreadsheet adapter unless it serves mock data
ListHonoursToken(api) ==
  \/ api = "NEON"
  \/ api = "GOOGLE_SHEETS" /\ ~useMockData

\* searchRecords(field, value, cancelToken) of the Neon and spreadsheet
\* adapters treats the token as getAllRecords does
SearchHonoursToken(api) == ListHonoursToken(api)

HonoursToken(kind, api) ==
  /\ PassesToken(api)
  /\ IF kind = "list" THEN ListHonoursToken(api) ELSE SearchHonoursToken(api)

\* the cancel token handed to the adapter's create / update / delete: none
MutationToken(ref) == 0

\* a handler that reloads the list whatever its adapter call answered
ReloadsAlways(outcome) == TRUE

\* handleCreate / handleUpdate / handleDelete reach `await loadRecords(apiType)`
\* only from the try block, after the awaited adapter call returned
ReloadsAfter(outcome) == outcome = "ok"

\* the render a handler was created in: what its closure sees
Closure == [api |-> apiType, search |-> searchName, len |-> records.len]

NoClosure == [search |-> <<>>, len |-> 0]

\* an adapter call in flight.  want: the adapter active at the user action;
\* tok: the call whose CancelTokenSource the adapter was handed, 0 = none;
\* parent, after: the create / update / delete handler awaiting this reload
\* and the outcome of that handler's own adapter call
NewCall(kind, api, want, tok, phase, parent, after, cl) ==
  [kind |-> kind, api |-> api, want |-> want, tok |-> tok, status |-> "pending",
   phase |-> phase, parent |-> parent, after |-> after, cancelReq |-> FALSE,
   clSearch |-> cl.search, clLen |-> cl.len]

\* a settled call: the promise is gone
Settled ==
  [kind |-> "", api |-> "", want |-> "", tok |-> 0, status |-> "settled",
   phase |-> "done", parent |-> "", after |-> "", cancelReq |-> FALSE,
   clSearch |-> <<>>, clLen |-> 0]

\* the part of the state the handlers write, threaded through one handler run;
\* micro: the calls whose cancellation is delivered once the handler returns
Cur == [calls |-> calls, ref |-> cancelTokenRef, records |-> records,
        editing |-> editingRecord, loading |-> loading, init |-> init,
        error |-> error, success |-> success, micro |-> {}]

\* cancelTokenRef.current.cancel(...): a pending axios request that holds the
\* token rejects with the cancellation; a Neon call still waiting for its
\* access token notices the cancellation when it issues the request
Cancel(st) ==
  IF st.ref = 0 THEN st
  ELSE LET hit == {r \in 1..Len(st.calls) :
                     /\ st.calls[r].status = "pending"
                     /\ st.calls[r].tok = st.ref
                     /\ ~st.calls[r].cancelReq}
       IN [st EXCEPT !.calls = [r \in DOMAIN st.calls |->
                                  IF r \in hit THEN [st.calls[r] EXCEPT !.cancelReq = TRUE]
                                  ELSE st.calls[r]],
                     !.micro = @ \cup {r \in hit : st.calls[r].phase = "http"}]

RECURSIVE LoadRecords(_, _, _, _, _, _, _)
RECURSIVE SearchRecords(_, _, _, _, _, _, _)

\* loadRecords(loadApiType) up to its first await
LoadRecords(st, loadApiType, cl, want, phase, parent, after) ==
  LET s1 == Cancel(st) IN
  IF Trim(cl.search) # <<>> /\ cl.len > 0
  THEN SearchRecords(s1, cl, cl.search, want, phase, parent, after)
  ELSE LET id == Len(s1.calls) + 1
           tok == IF HonoursToken("list", loadApiType) THEN id ELSE 0
           ph == IF loadApiType = "NEON" THEN phase ELSE "http"
       IN [s1 EXCEPT !.calls = Append(@, NewCall("list", loadApiType, want, tok, ph, parent, after, NoClosure)),
                     !.ref = id,
                     !.loading = TRUE, !.init = FALSE, !.error = "", !.success = ""]

\* searchRecords(name) up to its first await; apiType is the closure's
SearchRecords(st, cl, name, want, phase, parent, after) ==
  IF Trim(name) = <<>> \/ cl.len = 0
  THEN LoadRecords(st, cl.api, cl, want, phase, parent, after)
  ELSE LET s1 == Cancel(st)
           id == Len(s1.calls) + 1
           tok == IF HonoursToken("search", cl.api) THEN id ELSE 0
           ph == IF cl.api = "NEON" THEN phase ELSE "http"
       IN [s1 EXCEPT !.calls = Append(@, NewCall("search", cl.api, want, tok, ph, parent, after, NoClosure)),
                     !.ref = id,
                     !.loading = TRUE, !.error = "", !.success = ""]

SuccessMsg(kind) ==
  CASE kind = "create" -> "Record created successfully"
    [] kind = "update" -> "Record updated successfully"
    [] kind = "delete" -> "Record deleted successfully"

FailureMsg(kind) ==
  CASE kind = "create" -> "Failed to create record"
    [] kind = "update" -> "Failed to update record"
    [] kind = "delete" -> "Failed to delete record"

\* loadRecords' catch: a cancellation is not shown
LoadError(outcome, old) == IF outcome = "error" THEN "Failed to load records" ELSE old

\* searchRecords' catch: every rejection is shown
SearchError(outcome, old) == IF outcome # "ok" THEN "Failed to search records" ELSE old

\* the catch and finally of handleCreate / handleUpdate / handleDelete
Fail(st, kind) ==
  [st EXCEPT !.error = FailureMsg(kind), !.loading = FALSE]

\* the rest of loadRecords / searchRecords once the adapter call r settled
\* with outcome ok (n records), error or cancel, and then the rest of the
\* create / update / delete handler that awaited it
Settle(st, r, outcome, n) ==
  LET c == st.calls[r]
      s1 == [st EXCEPT !.calls[r] = Settled]
      data == IF outcome = "ok" THEN [len |-> n] ELSE st.records
      s2 == IF c.kind = "list"
            THEN [s1 EXCEPT !.records = data,
                            !.error = LoadError(outcome, @),
                            !.loading = FALSE, !.init = TRUE]
            ELSE [s1 EXCEPT !.records = data,
                            !.error = SearchError(outcome, @),
                            !.loading = FALSE]
  IN IF c.kind \in MutationKinds THEN Fail(s1, c.kind)
     ELSE IF c.parent = "" THEN s2
     ELSE [s2 EXCEPT !.success = SuccessMsg(c.parent),
                     !.loading = FALSE]

\* the promise reactions that run when the handler has returned: the
\* cancelled calls reject, in the order they were issued
RECURSIVE Flush(_)
Flush(st) ==
  IF st.micro = {} THEN st
  ELSE LET r == CHOOSE x \in st.micro : \A y \in st.micro : x <= y
       IN Flush(Settle([st EXCEPT !.micro = @ \ {r}], r, "cancel", 0))

Commit(st) ==
  \E s \in {Flush(st)} :
  /\ calls' = s.calls
  /\ cancelTokenRef' = s.ref
  /\ records' = s.records
  /\ editingRecord' = s.editing
  /\ loading' = s.loading
  /\ init' = s.init
  /\ error' = s.error
  /\ success' = s.success

\* a handler run that issued a call: phase is the one the call starts in
CommitIssue(st, phase) ==
  \E s \in {st} :
  /\ s.calls[Len(s.calls)].phase = phase
  /\ Commit(s)

Pending(kinds) == {r \in 1..Len(calls) : calls[r].kind \in kinds /\ calls[r].status = "pending"}

\* the bound on the calls of one behaviour leaves room for k more
Room(k) == Len(calls) + k <= MaxReq

NeonPhases == {"auth", "http"}

\* ------------------------------------------------------------------------
\* Coordinator: user actions
\* ------------------------------------------------------------------------

\* <input onChange={(e) => setSearchName(e.target.value)}>
SetSearchName(s) ==
  /\ activePage = "records"
  /\ s # searchName
  /\ searchName' = s
  /\ UNCHANGED <<apiType, activePage, records, editingRecord, loading, init, error,
                 success, cancelTokenRef, calls, useMockData, neonVars, storeVars, searchVars, failVars, raceVars, formVars, modalVars>>

\* handleSearchSubmit; the Search button is disabled while loading
HandleSearchSubmit(phase) ==
  /\ activePage = "records"
  /\ ~loading
  /\ Room(1)
  /\ LET cl == Closure IN
     IF Trim(searchName) = <<>>
     THEN CommitIssue(LoadRecords(Cur, apiType, cl, apiType, phase, "", ""), phase)
     ELSE CommitIssue(SearchRecords([Cur EXCEPT !.loading = TRUE], cl, searchName, apiType, phase, "", ""), phase)
  /\ UNCHANGED <<apiType, activePage, searchName, useMockData, neonVars, storeVars, searchVars, failVars, raceVars, formVars, modalVars>>

\* clearSearch: loadRecords runs in the render that still holds the old
\* searchName; the Clear button is disabled while loading
ClearSearch(phase) ==
  /\ activePage = "records"
  /\ ~loading
  /\ Room(1)
  /\ CommitIssue(LoadRecords(Cur, apiType, Closure, apiType, phase, "", ""), phase)
  /\ searchName' = <<>>
  /\ UNCHANGED <<apiType, activePage, useMockData, neonVars, storeVars, searchVars, failVars, raceVars, formVars, modalVars>>

\* onSetApiType(newApiType); the adapter buttons are never disabled
OnSetApiType(newApiType, phase) ==
  /\ activePage = "records"
  /\ apiType # newApiType
  /\ Room(1)
  /\ LET s1 == [Cancel(Cur) EXCEPT !.ref = 0] IN
     CommitIssue(LoadRecords(s1, newApiType, Closure, newApiType, phase, "", ""), phase)
  /\ apiType' = newApiType
  /\ activePage' = "records"
  /\ UNCHANGED <<searchName, useMockData, neonVars, storeVars, searchVars, failVars, raceVars, formVars, modalVars>>

\* handleNavigate(page), then the effect on [activePage] of the next render
HandleNavigate(page, phase) ==
  /\ LET s1 == [Cancel(Cur) EXCEPT !.ref = 0] IN
     IF page # activePage /\ page = "records"
     THEN Room(1) /\ CommitIssue(LoadRecords(s1, apiType, Closure, apiType, phase, "", ""), phase)
     ELSE phase = "http" /\ Commit(s1)
  /\ activePage' = page
  /\ UNCHANGED <<apiType, searchName, useMockData, neonVars, storeVars, searchVars, failVars, raceVars, formVars, modalVars>>

\* handleEdit(record) from the record list, or handleEdit(DEFAULT_RECORD)
\* from the "Create mock data" button, which is disabled while loading
HandleEdit ==
  /\ activePage = "records"
  /\ records.len > 0 \/ ~loading
  /\ ~editingRecord
  /\ editingRecord' = TRUE
  /\ UNCHANGED <<apiType, activePage, searchName, records, loading, init, error,
                 success, cancelTokenRef, calls, useMockData, neonVars, storeVars, searchVars, failVars, raceVars, formVars, modalVars>>

\* handleCancelEdit; the Cancel button is disabled while loading
HandleCancelEdit ==
  /\ activePage = "records"
  /\ editingRecord
  /\ ~loading
  /\ editingRecord' = FALSE
  /\ UNCHANGED <<apiType, activePage, searchName, records, loading, init, error,
                 success, cancelTokenRef, calls, useMockData, neonVars, storeVars, searchVars, failVars, raceVars, formVars, modalVars>>

\* the first lines of handleCreate / handleUpdate / handleDelete
StartMutation(kind) ==
  LET id == Len(calls) + 1
      c == NewCall(kind, apiType, apiType, MutationToken(cancelTokenRef), "http", "", "", Closure)
  IN /\ calls' = Append(calls, c)
     /\ loading' = TRUE
     /\ error' = ""
     /\ success' = ""
     /\ UNCHANGED <<apiType, activePage, searchName, records, editingRecord, init,
                    cancelTokenRef, useMockData, neonVars, storeVars, searchVars, failVars, raceVars, formVars, modalVars>>

\* RecordForm submit: onSubmit is handleUpdate when a record is being edited,
\* handleCreate otherwise; the button is disabled while loading
HandleCreate ==
  /\ activePage = "records"
  /\ ~loading
  /\ ~editingRecord
  /\ Room(1)
  /\ StartMutation("create")

HandleUpdate ==
  /\ activePage = "records"
  /\ ~loading
  /\ editingRecord
  /\ Room(1)
  /\ StartMutation("update")

\* the delete control of the record list is enabled when not loading
DeleteEnabled == ~loading

\* handleDelete(id) with the confirmation accepted
HandleDelete ==
  /\ activePage = "records"
  /\ records.len > 0
  /\ DeleteEnabled
  /\ Room(1)
  /\ StartMutation("delete")

\* ------------------------------------------------------------------------
\* Coordinator: adapter calls settling
\* ------------------------------------------------------------------------

\* Neon getAccessToken returned: the axios request is issued, and rejects at
\* once when its token is already cancelled
AuthDone(r) ==
  /\ r \in Pending(ListKinds)
  /\ calls[r].phase = "auth"
  /\ IF calls[r].cancelReq /\ calls[r].tok # 0
     THEN Commit(Settle(Cur, r, "cancel", 0))
     ELSE Commit([Cur EXCEPT !.calls[r].phase = "http"])
  /\ UNCHANGED <<apiType, activePage, searchName, useMockData, neonVars, storeVars, searchVars, failVars, raceVars, formVars, modalVars>>

\* Neon getAccessToken threw 'Failed to authenticate with NEON API'
AuthFail(r) ==
  /\ r \in Pending(ListKinds)
  /\ calls[r].phase = "auth"
  /\ Commit(Settle(Cur, r, "error", 0))
  /\ UNCHANGED <<apiType, activePage, searchName, useMockData, neonVars, storeVars, searchVars, failVars, raceVars, formVars, modalVars>>

\* the adapter's list / search call returned n records
ListResolve(r, n) ==
  /\ r \in Pending(ListKinds)
  /\ calls[r].phase = "http"
  /\ Commit(Settle(Cur, r, "ok", n))
  /\ UNCHANGED <<apiType, activePage, searchName, useMockData, neonVars, storeVars, searchVars, failVars, raceVars, formVars, modalVars>>

\* the adapter's list / search call threw
ListReject(r) ==
  /\ r \in Pending(ListKinds)
  /\ calls[r].phase = "http"
  /\ Commit(Settle(Cur, r, "error", 0))
  /\ UNCHANGED <<apiType, activePage, searchName, useMockData, neonVars, storeVars, searchVars, failVars, raceVars, formVars, modalVars>>

\* the closure of the handler that issued mutation m
ClosureOf(m) == [api |-> calls[m].api, search |-> calls[m].clSearch, len |-> calls[m].clLen]

\* the rest of handleCreate / handleUpdate / handleDelete once its adapter
\* call (and, for a delete, the image removal) ended with outcome:
\* `await loadRecords(apiType)` in the try block, or the catch
Finish(st, m, outcome, phase) ==
  IF ReloadsAfter(outcome)
  THEN /\ Room(1)
       /\ CommitIssue(LoadRecords(st, calls[m].api, ClosureOf(m), calls[m].want,
                                  phase, calls[m].kind, outcome), phase)
  ELSE /\ phase = "http"
       /\ Commit(Fail(st, calls[m].kind))

\* createRecord / updateRecord returned
MutationResolve(m, phase) ==
  /\ m \in Pending({"create", "update"})
  /\ Finish([Cur EXCEPT !.calls[m] = Settled, !.editing = FALSE], m, "ok", phase)
  /\ UNCHANGED <<apiType, activePage, searchName, useMockData, neonVars, storeVars, searchVars, failVars, raceVars, formVars, modalVars>>

\* deleteRecord returned; hasImage: the record found in the closure's list
\* has a profile_image, which appwriteService.deleteImage then removes
DeleteResolve(m, hasImage, phase) ==
  /\ m \in Pending({"delete"})
  /\ IF hasImage
     THEN phase = "http" /\ Commit([Cur EXCEPT !.calls[m].status = "resolved",
                                               !.calls[m].phase = "image"])
     ELSE Finish([Cur EXCEPT !.calls[m] = Settled], m, "ok", phase)
  /\ UNCHANGED <<apiType, activePage, searchName, useMockData, neonVars, storeVars, searchVars, failVars, raceVars, formVars, modalVars>>

\* appwriteService.deleteImage settled
ImageDone(m, ok, phase) ==
  /\ m \in 1..Len(calls)
  /\ calls[m].kind = "delete" /\ calls[m].status = "resolved" /\ calls[m].phase = "image"
  /\ Finish([Cur EXCEPT !.calls[m] = Settled], m, IF ok THEN "ok" ELSE "error", phase)
  /\ UNCHANGED <<apiType, activePage, searchName, useMockData, neonVars, storeVars, searchVars, failVars, raceVars, formVars, modalVars>>

\* the adapter's create / update / delete call threw
MutationReject(m, phase) ==
  /\ m \in Pending(MutationKinds)
  /\ Finish([Cur EXCEPT !.calls[m] = Settled], m, "error", phase)
  /\ UNCHANGED <<apiType, activePage, searchName, useMockData, neonVars, storeVars, searchVars, failVars, raceVars, formVars, modalVars>>

\* what the backend can answer to the call handleCreateEmployeeTable makes:
\* ok, error (the adapter throws), or refused (a 200 response whose body is
\* { error }, which initSheet does not read).  The script's doPost has no
\* 'init' action and answers { error: 'Invalid action' }; without script id
\* the request goes to .../macros/s/undefined/exec
TableAnswers(api, mock) ==
  IF api = "GOOGLE_SHEETS" /\ ~mock THEN {"refused", "error"} ELSE {"ok", "error"}

\* the Create Table button, shown unless the adapter is Appwrite and disabled
\* while loading: the first lines of handleCreateEmployeeTable
HandleCreateEmployeeTable ==
  /\ activePage = "records"
  /\ apiType # "APPWRITE"
  /\ ~loading
  /\ Room(1)
  /\ calls' = Append(calls, NewCall("table", apiType, apiType, 0, "http", "", "", NoClosure))
  /\ loading' = TRUE
  /\ error' = ""
  /\ success' = ""
  /\ UNCHANGED <<apiType, activePage, searchName, records, editingRecord, init,
                 cancelTokenRef, useMockData, neonVars, storeVars, searchVars, failVars, raceVars, formVars, modalVars>>

\* the rest of handleCreateEmployeeTable once the adapter call returned
TableDone(m) ==
  /\ m \in Pending({"table"})
  /\ Commit([Cur EXCEPT !.calls[m] = Settled,
                        !.success = "Employee table created successfully",
                        !.loading = FALSE])
  /\ UNCHANGED <<apiType, activePage, searchName, useMockData, neonVars, storeVars, searchVars, failVars, raceVars, formVars, modalVars>>

\* createDbEmployee / initDatabaseStructure / initSheet returned and the table exists
TableResolve(m) ==
  /\ m \in Pending({"table"})
  /\ "ok" \in TableAnswers(calls[m].api, useMockData)
  /\ TableDone(m)

\* initSheet returned although the script answered { error: 'Invalid action' }
TableRefuse(m) ==
  /\ m \in Pending({"table"})
  /\ "refused" \in TableAnswers(calls[m].api, useMockData)
  /\ TableDone(m)

\* createDbEmployee / initDatabaseStructure / initSheet threw
TableReject(m) ==
  /\ m \in Pending({"table"})
  /\ Commit([Cur EXCEPT !.calls[m] = Settled,
                        !.error = "Failed to create employee table",
                        !.loading = FALSE])
  /\ UNCHANGED <<apiType, activePage, searchName, useMockData, neonVars, storeVars, searchVars, failVars, raceVars, formVars, modalVars>>

\* the state after the first render and its effect, loadRecords(apiType)
CoordInit ==
  /\ apiType = "GOOGLE_SHEETS"
  /\ activePage = "records"
  /\ searchName = <<>>
  /\ records = [len |-> 0]
  /\ editingRecord = FALSE
  /\ loading = TRUE
  /\ init = FALSE
  /\ error = ""
  /\ success = ""
  /\ cancelTokenRef = 1
  /\ useMockData \in BOOLEAN
  /\ calls = <<NewCall("list", "GOOGLE_SHEETS", "GOOGLE_SHEETS",
                       IF HonoursToken("list", "GOOGLE_SHEETS") THEN 1 ELSE 0,
                       "http", "", "", NoClosure)>>

\* ------------------------------------------------------------------------
\* Neon REST adapter (NeonAPIService): token cache and 401 retry
\* ------------------------------------------------------------------------

\* 5 * 60 * 1000: the buffer before the stored expiry
BufferMs == 300000
\* 3600 * 1000: the lifetime assumed when the response states none
DefaultLifetimeMs == 3600000

\* expires_at_millis of the auth response; 0 stands for an absent value
ExpiresAtMillis == {0, BufferMs, BufferMs + 1}

\* what the clock advances by between two steps
TickSteps == {1, BufferMs, DefaultLifetimeMs - BufferMs}

\* HTTP status of a response of the Neon API
Statuses == {200, 401, 500}

\* a cache check that accepts a token expiring exactly at the buffer
CachedAtBuffer(token, expiresAt, t) == token # 0 /\ expiresAt >= t + BufferMs

\* getAccessToken: `this.currentAccessToken && this.tokenExpiresAt > now + 5 * 60 * 1000`
Cached(token, expiresAt, t) == token # 0 /\ expiresAt > t + BufferMs

\* getAccessToken: `expires_at_millis ? Date.now() + expires_at_millis : Date.now() + 3600 * 1000`
ExpiresAt(t, expires_at_millis) ==
  IF expires_at_millis # 0 THEN t + expires_at_millis ELSE t + DefaultLifetimeMs

AxiosMessage(status) ==
  IF status = 401 THEN "Request failed with status code 401"
  ELSE "Request failed with status code 500"

\* a catch block that treats a failed retry like the first failure
CatchAgain(stage, status) ==
  IF status = 401 THEN [next |-> "refresh", outcome |-> ""]
  ELSE [next |-> "done", outcome |-> "NEON API request failed"]

\* makeAuthenticatedRequest, a request answered with an error status: the
\* catch block of the first request refreshes on 401 and wraps any other
\* error; the retry is outside any try, so its error leaves as axios threw it
Catch(stage, status) ==
  IF stage = "request"
  THEN IF status = 401 THEN [next |-> "refresh", outcome |-> ""]
       ELSE [next |-> "done", outcome |-> "NEON API request failed"]
  ELSE [next |-> "done", outcome |-> AxiosMessage(status)]

\* axios(...) with the call's cancel token: a cancelled token rejects before
\* anything is sent
Send(stage) ==
  IF cancelToken = "cancelled"
  THEN /\ pc' = "done"
       /\ result' = "cancelled"
       /\ retries' = retries
  ELSE /\ pc' = stage
       /\ result' = result
       /\ retries' = IF stage = "retry" THEN retries + 1 ELSE retries

\* the clock advances
NeonTick(d) ==
  /\ ticks < MaxTicks
  /\ ticks' = ticks + 1
  /\ now' = now + d
  /\ UNCHANGED <<currentAccessToken, tokenExpiresAt, issued, pc, bearer, cancelToken,
                 authPosts, refreshPosts, retries, got401, retry401, result,
                 coordVars, storeVars, searchVars, failVars, raceVars, formVars, modalVars>>

\* makeAuthenticatedRequest up to its first await that leaves the adapter:
\* getAccessToken returns the cached token and the request is sent, or it
\* posts to the auth endpoint
MakeAuthenticatedRequest(withToken) ==
  /\ pc = "idle"
  /\ cancelToken' = IF withToken THEN "live" ELSE "none"
  /\ IF Cached(currentAccessToken, tokenExpiresAt, now)
     THEN /\ pc' = "request"
          /\ bearer' = currentAccessToken
          /\ authPosts' = 0
     ELSE /\ pc' = "auth"
          /\ bearer' = 0
          /\ authPosts' = 1
  /\ refreshPosts' = 0
  /\ retries' = 0
  /\ got401' = FALSE
  /\ retry401' = FALSE
  /\ result' = ""
  /\ UNCHANGED <<now, ticks, currentAccessToken, tokenExpiresAt, issued,
                 coordVars, storeVars, searchVars, failVars, raceVars, formVars, modalVars>>

\* the auth endpoint answered with a token: getAccessToken caches it and
\* returns, and the request (or the retry) is sent
AuthOk(expires_at_millis) ==
  /\ pc \in {"auth", "refresh"}
  /\ issued < MaxTokens
  /\ issued' = issued + 1
  /\ currentAccessToken' = issued + 1
  /\ tokenExpiresAt' = ExpiresAt(now, expires_at_millis)
  /\ bearer' = issued + 1
  /\ Send(IF pc = "auth" THEN "request" ELSE "retry")
  /\ UNCHANGED <<now, ticks, cancelToken, authPosts, refreshPosts, got401, retry401,
                 coordVars, storeVars, searchVars, failVars, raceVars, formVars, modalVars>>

\* the auth endpoint failed or answered without access_token
AuthError ==
  /\ pc \in {"auth", "refresh"}
  /\ pc' = "done"
  /\ result' = "Failed to authenticate with NEON API"
  /\ UNCHANGED <<now, ticks, currentAccessToken, tokenExpiresAt, issued, bearer,
                 cancelToken, authPosts, refreshPosts, retries, got401, retry401,
                 coordVars, storeVars, searchVars, failVars, raceVars, formVars, modalVars>>

\* the Neon API answered the request or the retry
Respond(status) ==
  /\ pc \in {"request", "retry"}
  /\ got401' = (got401 \/ (pc = "request" /\ status = 401))
  /\ retry401' = (retry401 \/ (pc = "retry" /\ status = 401))
  /\ IF status = 200
     THEN /\ pc' = "done"
          /\ result' = "ok"
          /\ UNCHANGED <<currentAccessToken, tokenExpiresAt, refreshPosts>>
     ELSE LET c == Catch(pc, status) IN
          IF c.next = "refresh"
          THEN /\ currentAccessToken' = 0
               /\ tokenExpiresAt' = 0
               /\ pc' = "refresh"
               /\ refreshPosts' = refreshPosts + 1
               /\ result' = result
          ELSE /\ pc' = "done"
               /\ result' = c.outcome
               /\ UNCHANGED <<currentAccessToken, tokenExpiresAt, refreshPosts>>
  /\ UNCHANGED <<now, ticks, issued, bearer, cancelToken, authPosts, retries,
                 coordVars, storeVars, searchVars, failVars, raceVars, formVars, modalVars>>

\* the owner of the token cancels it: a request in flight rejects, a call
\* waiting for the auth endpoint notices when it sends
CancelRequest ==
  /\ cancelToken = "live"
  /\ pc \in {"auth", "request", "refresh", "retry"}
  /\ cancelToken' = "cancelled"
  /\ IF pc \in {"request", "retry"}
     THEN pc' = "done" /\ result' = "cancelled"
     ELSE UNCHANGED <<pc, result>>
  /\ UNCHANGED <<now, ticks, currentAccessToken, tokenExpiresAt, issued, bearer,
                 authPosts, refreshPosts, retries, got401, retry401,
                 coordVars, storeVars, searchVars, failVars, raceVars, formVars, modalVars>>

\* the call returned or threw; the adapter is ready for the next one
Return ==
  /\ pc = "done"
  /\ pc' = "idle"
  /\ UNCHANGED <<now, ticks, currentAccessToken, tokenExpiresAt, issued, bearer,
                 cancelToken, authPosts, refreshPosts, retries, got401, retry401,
                 result, coordVars, storeVars, searchVars, failVars, raceVars, formVars, modalVars>>

\* the service as constructed: no token cached
NeonInit ==
  /\ now = 0
  /\ ticks = 0
  /\ currentAccessToken = 0
  /\ tokenExpiresAt = 0
  /\ issued = 0
  /\ pc = "idle"
  /\ bearer = 0
  /\ cancelToken = "none"
  /\ authPosts = 0
  /\ refreshPosts = 0
  /\ retries = 0
  /\ got401 = FALSE
  /\ retry401 = FALSE
  /\ result = ""

\* ------------------------------------------------------------------------
\* Record stores: create / getById / update / delete of every adapter
\* ------------------------------------------------------------------------

Adapters ==
  {"GOOGLE_SHEETS", "GOOGLE_SHEETS_MOCK", "NEON", "NEON_RAW", "FIREBASE", "APPWRITE"}

\* the data fields of a Record
Fields == {"name", "email", "phone", "department", "position", "profile_image", "status"}

\* JavaScript values: strings, numbers, and null / undefined
Str(s) == [t |-> "string", s |-> s, n |-> 0]
Num(n) == [t |-> "number", s |-> "", n |-> n]
Null == [t |-> "null", s |-> "", n |-> 0]

\* `v || d`
Falsy(v) == v \in {Null, Str(""), Num(0)}
Or(v, d) == IF Falsy(v) THEN d ELSE v

\* an object with no property; also stands for a null result
Nothing == [k \in {} |-> Null]

\* record[k], undefined when the property is missing
Get(record, k) == IF k \in DOMAIN record THEN record[k] ELSE Null

\* { k: v }
Only(k, v) == [x \in {k} |-> v]

\* { ...a, ...b }
Spread(a, b) ==
  [k \in DOMAIN a \cup DOMAIN b |-> IF k \in DOMAIN b THEN b[k] ELSE a[k]]

\* index of the first record whose property k is v, 0 when there is none
Find(rs, k, v) ==
  LET hits == {i \in 1..Len(rs) : Get(rs[i], k) = v}
  IN IF hits = {} THEN 0 ELSE CHOOSE i \in hits : \A j \in hits : i <= j

RemoveAt(rs, i) == SubSeq(rs, 1, i - 1) \o SubSeq(rs, i + 1, Len(rs))

\* Math.max(...records.map(r => r.id))
MaxId(rs) ==
  LET ids == {Get(rs[i], "id").n : i \in 1..Len(rs)}
  IN CHOOSE m \in ids : \A x \in ids : x <= m

\* what an operation leaves behind: ok is FALSE when it threw
Result(ok, rs, sq, ret) == [ok |-> ok, rows |-> rs, seq |-> sq, ret |-> ret]
Thrown(rs, sq) == Result(FALSE, rs, sq, Nothing)

\* what a read returns: ret is Nothing for null and when it threw
Got(ok, ret) == [ok |-> ok, ret |-> ret]

\* ---- Firebase Realtime Database (firebaseService.ts)

\* set(): children whose value is null are not stored
FirebaseSet(value) == [k \in {x \in DOMAIN value : value[x] # Null} |-> value[k]]

\* an update that replaces the record by the given children
FirebaseReplaceChildren(old, updates) == FirebaseSet(updates)

\* update(recordRef, updates): the children named are written, the others kept
FirebaseUpdateChildren(old, updates) == FirebaseSet(Spread(old, updates))

FirebaseGetNextId(rs) == IF Len(rs) = 0 THEN 1 ELSE MaxId(rs) + 1

FirebaseCreateRecord(rs, sq, record) ==
  LET nextId == FirebaseGetNextId(rs)
      newRecord == Spread(Spread(Only("id", Num(nextId)), record), Only("status", Num(1)))
  IN Result(TRUE, Append(rs, FirebaseSet(newRecord)), sq, newRecord)

FirebaseGetRecordById(rs, id) ==
  LET i == Find(rs, "id", id)
  IN IF i = 0 THEN Got(TRUE, Nothing) ELSE Got(TRUE, rs[i])

FirebaseUpdateRecord(rs, sq, id, updates) ==
  LET i == Find(rs, "id", id)
  IN IF i = 0 THEN Thrown(rs, sq)
     ELSE LET updated == FirebaseUpdateChildren(rs[i], updates)
          IN Result(TRUE, [rs EXCEPT ![i] = updated], sq, updated)

FirebaseDeleteRecord(rs, sq, id) ==
  LET i == Find(rs, "id", id)
  IN IF i = 0 THEN Thrown(rs, sq) ELSE Result(TRUE, RemoveAt(rs, i), sq, Nothing)

\* ---- Neon over SQL (NeonRawAPIService)

\* the row the INSERT / UPDATE writes: every column from recordData, null
\* where recordData has no such property
NeonRawColumns(id, recordData) ==
  Spread(Only("id", id), [f \in Fields |-> Get(recordData, f)])

\* INSERT; the identity column takes the next value; returns { id: 0, ...recordData }
NeonRawCreateRecord(rs, sq, recordData) ==
  Result(TRUE, Append(rs, NeonRawColumns(Num(sq + 1), recordData)), sq + 1,
         Spread(Only("id", Num(0)), recordData))

\* SELECT ... WHERE id = $1; result[0] || null
NeonRawGetRecordById(rs, id) ==
  LET i == Find(rs, "id", id)
  IN IF i = 0 THEN Got(TRUE, Nothing) ELSE Got(TRUE, rs[i])

\* UPDATE ... SET every column ... WHERE id; returns { id, ...recordData }
NeonRawUpdateRecord(rs, sq, id, recordData) ==
  LET i == Find(rs, "id", id)
      ret == Spread(Only("id", id), recordData)
  IN IF i = 0 THEN Result(TRUE, rs, sq, ret)
     ELSE Result(TRUE, [rs EXCEPT ![i] = NeonRawColumns(id, recordData)], sq, ret)

NeonRawDeleteRecord(rs, sq, id) ==
  LET i == Find(rs, "id", id)
  IN IF i = 0 THEN Result(TRUE, rs, sq, Nothing) ELSE Result(TRUE, RemoveAt(rs, i), sq, Nothing)

\* ---- the spreadsheet adapter serving mock data (googleSheetsAPI.ts)

MockRecord(id, text) ==
  [id |-> Num(id), name |-> Str(text), email |-> Str(text), phone |-> Str(text),
   department |-> Str(text), position |-> Str(text)]

\* this.mockData of the constructor
MockData ==
  <<MockRecord(1, "John Doe"), MockRecord(2, "Jane Smith"), MockRecord(3, "Mike Johnson"),
    MockRecord(4, "Sarah Wilson"), MockRecord(5, "David Brown")>>

\* generateId: Date.now() + Math.random(), a number no record has yet
MockGenerateId(rs, sq) == 1000 + sq

MockCreateRecord(rs, sq, recordData) ==
  LET newRecord == Spread(Only("id", Num(MockGenerateId(rs, sq))), recordData)
  IN Result(TRUE, Append(rs, newRecord), sq + 1, newRecord)

MockGetRecord(rs, id) ==
  LET i == Find(rs, "id", id)
  IN IF i = 0 THEN Got(FALSE, Nothing) ELSE Got(TRUE, rs[i])

MockUpdateRecord(rs, sq, id, recordData) ==
  LET i == Find(rs, "id", id)
  IN IF i = 0 THEN Thrown(rs, sq)
     ELSE LET merged == Spread(rs[i], recordData)
          IN Result(TRUE, [rs EXCEPT ![i] = merged], sq, merged)

MockDeleteRecord(rs, sq, id) ==
  LET i == Find(rs, "id", id)
  IN IF i = 0 THEN Thrown(rs, sq) ELSE Result(TRUE, RemoveAt(rs, i), sq, rs[i])

\* createMultipleRecords (mock branch): every record is pushed as
\* { id: this.generateId(), ...recordData }; ret is the first record returned
MockCreateMultipleRecords(rs, sq, recordsData) ==
  LET newRecords == [i \in 1..Len(recordsData) |->
                       Spread(Only("id", Num(MockGenerateId(rs, sq + i - 1))), recordsData[i])]
  IN Result(TRUE, rs \o newRecords, sq + Len(recordsData),
            IF Len(recordsData) = 0 THEN Nothing ELSE newRecords[1])

\* modifyMultipleRecords (mock branch): the same statements as the batch create
MockModifyMultipleRecords(rs, sq, recordsData) ==
  LET newRecords == [i \in 1..Len(recordsData) |->
                       Spread(Only("id", Num(MockGenerateId(rs, sq + i - 1))), recordsData[i])]
  IN Result(TRUE, rs \o newRecords, sq + Len(recordsData),
            IF Len(recordsData) = 0 THEN Nothing ELSE newRecords[1])

\* ---- the spreadsheet adapter and the Apps Script behind it

\* COLUMNS, configured with the id and the data fields of a Record
COLUMNS == {"id"} \cup Fields

\* the default a falsy cell or property is replaced by
ColumnDefault(key) == IF key = "status" THEN Num(0) ELSE Str("")

\* convertToRow(record, id); id = Null stands for the omitted argument.
\* A column other than id that record lacks makes findValCol.toLowerCase()
\* throw a TypeError
ConvertToRow(record, id) ==
  IF \E key \in COLUMNS \ {"id"} : key \notin DOMAIN record
  THEN [ok |-> FALSE, row |-> Nothing]
  ELSE [ok |-> TRUE,
        row |-> [key \in COLUMNS |->
                  IF key = "id"
                  THEN IF id # Null THEN id ELSE Or(Get(record, "id"), Num(1))
                  ELSE Or(record[key], ColumnDefault(key))]]

\* convertToRecord(row)
ConvertToRecord(row) ==
  [key \in COLUMNS |->
     IF key = "id" THEN Or(Get(row, "id"), Num(1))
     ELSE Or(Get(row, key), ColumnDefault(key))]

\* recordToRecordObject(record, id): null without any id; a later read of
\* null throws as well
RecordToRecordObject(record, id) ==
  IF Falsy(Get(record, "id")) /\ id = Null
  THEN [ok |-> FALSE, row |-> Nothing]
  ELSE ConvertToRow(record, id)

\* createRow(recordData, id)
CreateRow(recordData, id) ==
  LET newRecord == RecordToRecordObject(recordData, id)
  IN IF newRecord.ok THEN ConvertToRow(newRecord.row, Null) ELSE newRecord

\* generateId: the id of the last row plus one
GenerateId(rs) ==
  IF Len(rs) > 0 THEN Or(Get(rs[Len(rs)], "id"), Num(0)).n + 1 ELSE 1

\* createRecord of the script; the adapter throws on { error }
SheetCreateRecord(rs, sq, recordData) ==
  LET newRecord == CreateRow(recordData, Num(GenerateId(rs)))
  IN IF newRecord.ok THEN Result(TRUE, Append(rs, newRecord.row), sq, newRecord.row)
     ELSE Thrown(rs, sq)

\* getRecordById of the script: ids are compared as strings
SheetGetRecord(rs, id) ==
  LET hits == {i \in 1..Len(rs) : ConvertToRecord(rs[i])["id"].n = id.n}
  IN IF hits = {} THEN Got(FALSE, Nothing)
     ELSE Got(TRUE, ConvertToRecord(rs[CHOOSE i \in hits : \A j \in hits : i <= j]))

\* updateRecord of the script: the row is overwritten with the converted data
SheetUpdateRecord(rs, sq, id, recordData) ==
  LET i == Find(rs, "id", id)
      updatedRecord == RecordToRecordObject(recordData, id)
  IN IF Falsy(id) \/ i = 0 \/ ~updatedRecord.ok THEN Thrown(rs, sq)
     ELSE Result(TRUE, [rs EXCEPT ![i] = updatedRecord.row], sq, updatedRecord.row)

\* deleteRecord of the script
SheetDeleteRecord(rs, sq, id) ==
  LET i == Find(rs, "id", id)
  IN IF Falsy(id) \/ i = 0 THEN Thrown(rs, sq)
     ELSE Result(TRUE, RemoveAt(rs, i), sq, rs[i])

\* createMultipleRecords of the script: ids count up from generateId(); the
\* rows are written together after the loop, so a record that makes createRow
\* throw leaves the sheet as it was
SheetCreateMultipleRecords(rs, sq, recordsData) ==
  LET id == GenerateId(rs)
      created == [i \in 1..Len(recordsData) |-> CreateRow(recordsData[i], Num(id + i - 1))]
  IN IF \E i \in 1..Len(recordsData) : ~created[i].ok THEN Thrown(rs, sq)
     ELSE Result(TRUE, rs \o [i \in 1..Len(recordsData) |-> created[i].row], sq,
                 IF Len(recordsData) = 0 THEN Nothing ELSE created[1].row)

\* the loop of modifyMultipleRecords from one record on: data is the sheet as
\* read before the loop, rs the sheet as written so far, first the first
\* record pushed to modifyRecords.  A record whose id is in data overwrites
\* that row; any other is appended under generateId() with status 1.  Each
\* row is written at once, so a throw keeps the rows written before it
RECURSIVE SheetModifyLoop(_, _, _, _, _)
SheetModifyLoop(data, rs, sq, recordsData, first) ==
  IF recordsData = <<>> THEN Result(TRUE, rs, sq, first)
  ELSE LET recordData == Head(recordsData)
           rowDataIndex == IF Get(recordData, "id") = Null THEN 0
                           ELSE Find(data, "id", Get(recordData, "id"))
           updatedRecord == RecordToRecordObject(recordData, Null)
           newRecord == CreateRow(recordData, Num(GenerateId(rs)))
           appended == [newRecord.row EXCEPT !["status"] = Num(1)]
       IN IF rowDataIndex > 0
          THEN IF ~updatedRecord.ok THEN Thrown(rs, sq)
               ELSE SheetModifyLoop(data, [rs EXCEPT ![rowDataIndex] = updatedRecord.row], sq,
                                    Tail(recordsData),
                                    IF first = Nothing THEN updatedRecord.row ELSE first)
          ELSE IF ~newRecord.ok THEN Thrown(rs, sq)
               ELSE SheetModifyLoop(data, Append(rs, appended), sq, Tail(recordsData),
                                    IF first = Nothing THEN appended ELSE first)

\* modifyMultipleRecords of the script
SheetModifyMultipleRecords(rs, sq, recordsData) ==
  SheetModifyLoop(rs, rs, sq, recordsData, Nothing)

\* ---- Neon over REST (NeonAPIService); the table answers as PostgREST does:
\* POST inserts the body under a generated id, PATCH writes the body's columns

NeonCreateRecord(rs, sq, employeeData) ==
  LET body == Spread(employeeData, Only("status", Num(1)))
      row == Spread([f \in Fields |-> Null], Spread(body, Only("id", Num(sq + 1))))
  IN Result(TRUE, Append(rs, row), sq + 1, row)

NeonGetRecordById(rs, id) ==
  LET i == Find(rs, "id", id)
  IN IF i = 0 THEN Got(FALSE, Nothing) ELSE Got(TRUE, rs[i])

NeonUpdateRecord(rs, sq, id, employeeData) ==
  LET i == Find(rs, "id", id)
      ret == Spread(Only("id", id), employeeData)
  IN IF i = 0 THEN Result(TRUE, rs, sq, ret)
     ELSE Result(TRUE, [rs EXCEPT ![i] = Spread(rs[i], employeeData)], sq, ret)

NeonDeleteRecord(rs, sq, id) ==
  LET i == Find(rs, "id", id)
  IN IF i = 0 THEN Result(TRUE, rs, sq, Nothing) ELSE Result(TRUE, RemoveAt(rs, i), sq, Nothing)

\* ---- Appwrite (AppwriteService); documents are kept under their $id

\* ID.unique()
DocumentIds == <<"d1", "d2", "d3", "d4", "d5">>

\* rows[rows.length - 1]?.id + 1 || 1
AppwriteNextId(rs) ==
  IF Len(rs) = 0 THEN 1 ELSE Or(Num(Get(rs[Len(rs)], "id").n + 1), Num(1)).n

AppwriteCreateRecord(rs, sq, data) ==
  LET doc == Spread(Spread(data, [id |-> Num(AppwriteNextId(rs)), status |-> Num(1)]),
                    Only("$id", Str(DocumentIds[sq + 1])))
  IN Result(TRUE, Append(rs, doc), sq + 1, doc)

AppwriteGetRecordById(rs, id) ==
  LET i == Find(rs, "$id", id)
  IN IF i = 0 THEN Got(FALSE, Nothing) ELSE Got(TRUE, rs[i])

\* updateDocument writes the attributes given and keeps the others
AppwriteUpdateRecord(rs, sq, id, data) ==
  LET i == Find(rs, "$id", id)
  IN IF i = 0 THEN Thrown(rs, sq)
     ELSE LET doc == Spread(rs[i], data)
          IN Result(TRUE, [rs EXCEPT ![i] = doc], sq, doc)

AppwriteDeleteRecord(rs, sq, id) ==
  LET i == Find(rs, "$id", id)
  IN IF i = 0 THEN Thrown(rs, sq) ELSE Result(TRUE, RemoveAt(rs, i), sq, Nothing)

\* ---- the adapters side by side

CreateOf(ad, rs, sq, data) ==
  CASE ad = "FIREBASE" -> FirebaseCreateRecord(rs, sq, data)
    [] ad = "NEON_RAW" -> NeonRawCreateRecord(rs, sq, data)
    [] ad = "NEON" -> NeonCreateRecord(rs, sq, data)
    [] ad = "APPWRITE" -> AppwriteCreateRecord(rs, sq, data)
    [] ad = "GOOGLE_SHEETS_MOCK" -> MockCreateRecord(rs, sq, data)
    [] ad = "GOOGLE_SHEETS" -> SheetCreateRecord(rs, sq, data)

GetOf(ad, rs, id) ==
  CASE ad = "FIREBASE" -> FirebaseGetRecordById(rs, id)
    [] ad = "NEON_RAW" -> NeonRawGetRecordById(rs, id)
    [] ad = "NEON" -> NeonGetRecordById(rs, id)
    [] ad = "APPWRITE" -> AppwriteGetRecordById(rs, id)
    [] ad = "GOOGLE_SHEETS_MOCK" -> MockGetRecord(rs, id)
    [] ad = "GOOGLE_SHEETS" -> SheetGetRecord(rs, id)

UpdateOf(ad, rs, sq, id, data) ==
  CASE ad = "FIREBASE" -> FirebaseUpdateRecord(rs, sq, id, data)
    [] ad = "NEON_RAW" -> NeonRawUpdateRecord(rs, sq, id, data)
    [] ad = "NEON" -> NeonUpdateRecord(rs, sq, id, data)
    [] ad = "APPWRITE" -> AppwriteUpdateRecord(rs, sq, id, data)
    [] ad = "GOOGLE_SHEETS_MOCK" -> MockUpdateRecord(rs, sq, id, data)
    [] ad = "GOOGLE_SHEETS" -> SheetUpdateRecord(rs, sq, id, data)

DeleteOf(ad, rs, sq, id) ==
  CASE ad = "FIREBASE" -> FirebaseDeleteRecord(rs, sq, id)
    [] ad = "NEON_RAW" -> NeonRawDeleteRecord(rs, sq, id)
    [] ad = "NEON" -> NeonDeleteRecord(rs, sq, id)
    [] ad = "APPWRITE" -> AppwriteDeleteRecord(rs, sq, id)
    [] ad = "GOOGLE_SHEETS_MOCK" -> MockDeleteRecord(rs, sq, id)
    [] ad = "GOOGLE_SHEETS" -> SheetDeleteRecord(rs, sq, id)

\* the id a caller reads off a record: $id for Appwrite, id otherwise
IdOf(ad, record) ==
  IF ad = "APPWRITE" THEN Get(record, "$id") ELSE Get(record, "id")

\* ---- inputs

FullRecord(text, image, status) ==
  [name |-> Str(text), email |-> Str(text), phone |-> Str(text),
   department |-> Str(text), position |-> Str(text),
   profile_image |-> Str(image), status |-> Num(status)]

CreateInputs == {FullRecord("a", image, status) : image \in {"", "p"}, status \in {0, 1}}

PartialInputs ==
  {Only("name", Str("b")), Only("profile_image", Str("")),
   Only("status", Num(0)), Only("status", Num(2))}

UpdateInputs == {FullRecord("b", "q", status) : status \in {0, 1}} \cup PartialInputs

\* a record as exportToGoogleSheets sends it: id, name, email, phone,
\* department, position
ExportRecord(id, text) ==
  [id |-> Num(id), name |-> Str(text), email |-> Str(text), phone |-> Str(text),
   department |-> Str(text), position |-> Str(text)]

\* the records of a batch: without id, with the id of a stored record, and as
\* the export sends them, with an id the sheet may or may not hold
BatchRecords ==
  {FullRecord("c", "", 0), Spread(Only("id", Num(1)), FullRecord("c", "", 0)),
   ExportRecord(1, "c"), ExportRecord(2, "c")}

\* batches of one record, and of one record twice
Batches == {<<r>> : r \in BatchRecords} \cup {<<r, r>> : r \in BatchRecords}

\* the ids an operation is tried with: none that exists, the last two
\* records', and the one the last operation returned
TargetIds ==
  {Num(0), last.id}
    \cup {IdOf(adapter, rows[i]) : i \in {j \in 1..Len(rows) : j >= Len(rows) - 1}}

\* ---- operations

Op(op, ok, id, data, before, ret) ==
  [op |-> op, ok |-> ok, id |-> id, data |-> data, before |-> before, ret |-> ret]

\* the two forms of the spreadsheet adapter: constructed with a script URL or
\* script id, or with neither (useMockData)
SheetAdapters == {"GOOGLE_SHEETS", "GOOGLE_SHEETS_MOCK"}

\* HTTP requests one operation of the spreadsheet adapter sends: every method
\* but initSheet returns from its `if (this.useMockData)` branch before axios
\* is called
Requests(ad, op) ==
  IF ad = "GOOGLE_SHEETS" \/ (ad = "GOOGLE_SHEETS_MOCK" /\ op = "init") THEN 1 ELSE 0

\* the operations on records are modelled on a sheet set up with its header row
SheetReady == adapter = "GOOGLE_SHEETS" => header

CreateRecord(data) ==
  /\ ops < MaxOps
  /\ SheetReady
  /\ LET r == CreateOf(adapter, rows, seq, data) IN
     /\ rows' = r.rows
     /\ seq' = r.seq
     /\ last' = Op("create", r.ok, IdOf(adapter, r.ret), data, Nothing, r.ret)
  /\ ops' = ops + 1
  /\ requests' = requests + Requests(adapter, "create")
  /\ UNCHANGED <<adapter, header, retired, coordVars, neonVars, searchVars, failVars, raceVars, formVars, modalVars>>

GetRecordById(id) ==
  /\ ops < MaxOps
  /\ SheetReady
  /\ LET r == GetOf(adapter, rows, id) IN
     last' = Op("get", r.ok, id, Nothing, Nothing, r.ret)
  /\ ops' = ops + 1
  /\ requests' = requests + Requests(adapter, "get")
  /\ UNCHANGED <<adapter, header, rows, seq, retired, coordVars, neonVars, searchVars, failVars, raceVars, formVars, modalVars>>

\* getAllRecords; ret is the first record of the list
GetAllRecords ==
  /\ ops < MaxOps
  /\ SheetReady
  /\ last' = Op("list", TRUE, Num(0), Nothing, Nothing,
                IF rows = <<>> THEN Nothing ELSE rows[1])
  /\ ops' = ops + 1
  /\ requests' = requests + Requests(adapter, "list")
  /\ UNCHANGED <<adapter, header, rows, seq, retired, coordVars, neonVars, searchVars, failVars, raceVars, formVars, modalVars>>

UpdateRecord(id, data) ==
  /\ ops < MaxOps
  /\ SheetReady
  /\ LET r == UpdateOf(adapter, rows, seq, id, data) IN
     /\ rows' = r.rows
     /\ seq' = r.seq
     /\ last' = Op("update", r.ok, id, data, GetOf(adapter, rows, id).ret, r.ret)
  /\ ops' = ops + 1
  /\ requests' = requests + Requests(adapter, "update")
  /\ UNCHANGED <<adapter, header, retired, coordVars, neonVars, searchVars, failVars, raceVars, formVars, modalVars>>

DeleteRecord(id) ==
  /\ ops < MaxOps
  /\ SheetReady
  /\ LET r == DeleteOf(adapter, rows, seq, id)
         before == GetOf(adapter, rows, id).ret
     IN /\ rows' = r.rows
        /\ seq' = r.seq
        /\ last' = Op("delete", r.ok, id, Nothing, before, r.ret)
        /\ retired' = IF r.ok /\ before # Nothing
                      THEN retired \cup {Get(before, "id")} ELSE retired
  /\ ops' = ops + 1
  /\ requests' = requests + Requests(adapter, "delete")
  /\ UNCHANGED <<adapter, header, coordVars, neonVars, searchVars, failVars, raceVars, formVars, modalVars>>

\* createMultipleRecords of the spreadsheet adapter
CreateMultipleRecords(recordsData) ==
  /\ ops < MaxOps
  /\ SheetReady
  /\ adapter \in SheetAdapters
  /\ LET r == IF adapter = "GOOGLE_SHEETS_MOCK"
              THEN MockCreateMultipleRecords(rows, seq, recordsData)
              ELSE SheetCreateMultipleRecords(rows, seq, recordsData)
     IN /\ rows' = r.rows
        /\ seq' = r.seq
        /\ last' = Op("createMultiple", r.ok, IdOf(adapter, r.ret), Nothing, Nothing, r.ret)
  /\ ops' = ops + 1
  /\ requests' = requests + Requests(adapter, "createMultiple")
  /\ UNCHANGED <<adapter, header, retired, coordVars, neonVars, searchVars, failVars, raceVars, formVars, modalVars>>

\* modifyMultipleRecords of the spreadsheet adapter
ModifyMultipleRecords(recordsData) ==
  /\ ops < MaxOps
  /\ SheetReady
  /\ adapter \in SheetAdapters
  /\ LET r == IF adapter = "GOOGLE_SHEETS_MOCK"
              THEN MockModifyMultipleRecords(rows, seq, recordsData)
              ELSE SheetModifyMultipleRecords(rows, seq, recordsData)
     IN /\ rows' = r.rows
        /\ seq' = r.seq
        /\ last' = Op("modify", r.ok, IdOf(adapter, r.ret), recordsData, Nothing, r.ret)
  /\ ops' = ops + 1
  /\ requests' = requests + Requests(adapter, "modify")
  /\ UNCHANGED <<adapter, header, retired, coordVars, neonVars, searchVars, failVars, raceVars, formVars, modalVars>>

\* doPost of the script on the action of a post: create, createMultiple,
\* modify, update and delete are dispatched; any other action, 'init'
\* included, is answered { error: 'Invalid action' }: initializeSheet, which
\* writes the column names, is called from nowhere
DoPostHeader(action, hdr) == hdr

\* initSheet of the spreadsheet adapter: posts { action: 'init' }; ok is
\* whether the post went through
InitSheet(ok) ==
  /\ ops < MaxOps
  /\ adapter \in SheetAdapters
  /\ last' = Op("init", ok, Num(0), Nothing, Nothing, Nothing)
  /\ ops' = ops + 1
  /\ requests' = requests + Requests(adapter, "init")
  /\ header' = IF ok /\ adapter = "GOOGLE_SHEETS" THEN DoPostHeader("init", header) ELSE header
  /\ UNCHANGED <<adapter, rows, seq, retired, coordVars, neonVars, searchVars, failVars, raceVars, formVars, modalVars>>

\* the backend as the adapter finds it: empty, or the mock data
StoreInit ==
  /\ adapter \in Adapters
  /\ rows = IF adapter = "GOOGLE_SHEETS_MOCK" THEN MockData ELSE <<>>
  /\ seq = 0
  /\ ops = 0
  /\ last = Op("", TRUE, Num(0), Nothing, Nothing, Nothing)
  /\ retired = {}
  /\ requests = 0
  /\ header \in (IF adapter = "GOOGLE_SHEETS" THEN BOOLEAN ELSE {FALSE})

\* ------------------------------------------------------------------------
\* Search: the stored names and the search value are sequences of characters
\* ------------------------------------------------------------------------

\* longest name and longest search value
MaxLen == 2

Alphabet == {"a", "A", "%"}
Texts == UNION {[1..n -> Alphabet] : n \in 0..MaxLen}
RecordIds == {1, 2}
MatchTypes == {"exact", "contains"}

\* a conversion that keeps the case of every character
KeepCase(s) == s

\* String.prototype.toLowerCase
ToLowerCase(s) == [i \in 1..Len(s) |-> IF s[i] = "A" THEN "a" ELSE s[i]]

\* String.prototype.indexOf: the first position (from 0) of v in s, -1 if none
IndexOf(s, v) ==
  LET at == {i \in 0..(Len(s) - Len(v)) : SubSeq(s, i + 1, i + Len(v)) = v}
  IN  IF at = {} THEN -1 ELSE CHOOSE i \in at : \A j \in at : i <= j

\* String.prototype.includes
Includes(s, v) == \E i \in 0..(Len(s) - Len(v)) : SubSeq(s, i + 1, i + Len(v)) = v

\* String.prototype.charAt: '' past the end
CharAt(s, i) == IF i >= 0 /\ i < Len(s) THEN s[i + 1] ELSE ""

\* String.prototype.substring: indices clamped to 0..length, swapped if start > end
Substring(s, start, end) ==
  LET clamp(i) == IF i < 0 THEN 0 ELSE IF i > Len(s) THEN Len(s) ELSE i
      lo == IF clamp(start) <= clamp(end) THEN clamp(start) ELSE clamp(end)
      hi == IF clamp(start) <= clamp(end) THEN clamp(end) ELSE clamp(start)
  IN  SubSeq(s, lo + 1, hi)

\* FirebaseService.searchRecords, QUERY_TYPE.EXACT: orderByChild(field), equalTo(value)
FirebaseEqualTo(tbl, v) == {id \in DOMAIN tbl : tbl[id] = v}

\* FirebaseService.searchRecords, otherwise: all records, filtered in the client
FirebaseContains(tbl, v) ==
  LET lowerCaseValue == ToLowerCase(v)
  IN  {id \in DOMAIN tbl : Includes(ToLowerCase(tbl[id]), lowerCaseValue)}

\* NeonRawAPIService.searchRecords: WHERE key = $1
NeonRawWhere(tbl, v) == {id \in DOMAIN tbl : tbl[id] = v}

\* the match types of the script's LIKE operator
ScriptMatchTypes == MatchTypes \cup {"startsWith", "endsWith"}

\* the script's query value for a contains search
LikePattern(v) == <<"%">> \o v \o <<"%">>

\* the script's query value for a search of the match type
QueryValue(matchType, v) ==
  CASE matchType = "contains" -> LikePattern(v)
    [] matchType = "startsWith" -> v \o <<"%">>
    [] matchType = "endsWith" -> <<"%">> \o v
    [] OTHER -> v

\* the script's searchRecordsByQuery on the query value
SearchRecordsByQuery(tbl, queryValue) ==
  LET searchValue == ToLowerCase(queryValue)
      n == Len(searchValue)
      searchType ==
        IF CharAt(searchValue, 0) = "%" /\ CharAt(searchValue, n - 1) = "%" THEN "contains"
        ELSE IF CharAt(searchValue, 0) = "%" THEN "endsWith"
        ELSE IF CharAt(searchValue, n - 1) = "%" THEN "startsWith"
        ELSE "exact"
      actualSearchValue ==
        CASE searchType = "contains" -> Substring(searchValue, 1, n - 1)
          [] searchType = "endsWith" -> Substring(searchValue, 1, n)
          [] searchType = "startsWith" -> Substring(searchValue, 0, n - 1)
          [] OTHER -> searchValue
      IsMatch(name) ==
        LET fieldValue == ToLowerCase(name)
            valueEndIdx == Len(fieldValue) - Len(actualSearchValue)
        IN  CASE searchType = "exact" -> fieldValue = actualSearchValue
              [] searchType = "contains" -> IndexOf(fieldValue, actualSearchValue) # -1
              [] searchType = "startsWith" -> IndexOf(fieldValue, actualSearchValue) = 0
              [] OTHER -> valueEndIdx >= 0 /\ IndexOf(fieldValue, actualSearchValue) = valueEndIdx
  IN  {id \in DOMAIN tbl : IsMatch(tbl[id])}

Found(ad, matchType, ids) == [adapter |-> ad, matchType |-> matchType, ids |-> ids]

FirebaseSearchRecords(matchType) ==
  /\ found' = Found("FIREBASE", matchType,
                    IF matchType = "exact" THEN FirebaseEqualTo(table, query)
                    ELSE FirebaseContains(table, query))
  /\ UNCHANGED <<table, query, coordVars, neonVars, storeVars, failVars, raceVars, formVars, modalVars>>

NeonRawSearchRecords ==
  /\ found' = Found("NEON_RAW", "exact", NeonRawWhere(table, query))
  /\ UNCHANGED <<table, query, coordVars, neonVars, storeVars, failVars, raceVars, formVars, modalVars>>

\* doGet with action=search
DoGetSearch(matchType) ==
  /\ found' = Found("GOOGLE_SHEETS", matchType,
                    SearchRecordsByQuery(table, QueryValue(matchType, query)))
  /\ UNCHANGED <<table, query, coordVars, neonVars, storeVars, failVars, raceVars, formVars, modalVars>>

SearchInit ==
  /\ table \in [RecordIds -> Texts]
  /\ query \in Texts
  /\ found = Found("", "", {})

\* no search is modelled outside the search specification
SearchIdle ==
  /\ table = [id \in RecordIds |-> <<>>]
  /\ query = <<>>
  /\ found = Found("", "", {})

\* ------------------------------------------------------------------------
\* Failures: what an adapter operation throws when its backend call fails.
\* An error message is the sequence of its parts, so that a message that
\* wraps another one holds it as a part.
\* ------------------------------------------------------------------------

BackendMessages == {"", "Network Error", "timeout of 30000ms exceeded", "Record not found"}
\* network: no response; http: an error status whose body carries a message;
\* envelope: a 200 response whose body is { error: message }
FailureKinds == {"network", "http", "envelope"}
AdapterOps == {"create", "update", "delete", "list", "get"}

Rejected(parts) == [threw |-> TRUE, error |-> parts]
Resolved == [threw |-> FALSE, error |-> <<>>]

\* the error axios rejects with: its own message, and the message of the response body
AxiosError(kind, m) ==
  [message |-> IF kind = "network" THEN m ELSE "Request failed with status code 500",
   data |-> IF kind = "http" THEN m ELSE ""]

\* makeAuthenticatedRequest when the request fails with no cancellation and no 401
NeonRequestFailed(kind, m) ==
  LET err == AxiosError(kind, m)
  IN  IF kind = "envelope" THEN Resolved
      ELSE Rejected(<<"NEON API request failed: ",
                      IF err.data # "" THEN err.data ELSE err.message>>)

NeonFailedMessage(op) ==
  CASE op = "create" -> "Failed to create employee in NEON Database"
    [] op = "update" -> "Failed to update employee in NEON Database"
    [] op = "delete" -> "Failed to delete employee from NEON Database"
    [] op = "list" -> "Failed to fetch employees from NEON Database"
    [] OTHER -> "Failed to fetch employee from NEON Database"

\* NeonAPIService.createRecord / updateRecord / deleteRecord / getAllRecords / getRecordById
NeonOperationFailed(op, kind, m) ==
  LET res == NeonRequestFailed(kind, m)
  IN  IF res.threw THEN Rejected(<<NeonFailedMessage(op)>>)
      ELSE IF op \in {"create", "update", "delete"} /\ m # ""
        THEN Rejected(<<NeonFailedMessage(op)>>)
      ELSE Resolved

SheetFailedMessage(op) ==
  CASE op = "create" -> "Failed to create record in Google Sheets"
    [] op = "update" -> "Failed to update record in Google Sheets"
    [] op = "delete" -> "Failed to delete record from Google Sheets"
    [] op = "list" -> "Failed to fetch records from Google Sheets"
    [] OTHER -> "Failed to fetch record from Google Sheets"

\* GoogleSheetsAPIService.createRecord / updateRecord / deleteRecord / getAllRecords / getRecord
SheetOperationFailed(op, kind, m) ==
  IF kind = "envelope" /\ op = "list" THEN Resolved
  ELSE Rejected(<<SheetFailedMessage(op)>>)

\* the message holds m as one of its parts
Wraps(parts, m) == \E i \in 1..Len(parts) : parts[i] = m

Raised(ad, op, kind, m, outcome) ==
  [adapter |-> ad, op |-> op, kind |-> kind, backend |-> m,
   threw |-> outcome.threw, error |-> outcome.error]

NeonFail(op, kind, m) ==
  /\ raised' = Raised("NEON", op, kind, m, NeonOperationFailed(op, kind, m))
  /\ UNCHANGED <<coordVars, neonVars, storeVars, searchVars, raceVars, formVars, modalVars>>

SheetFail(op, kind, m) ==
  /\ raised' = Raised("GOOGLE_SHEETS", op, kind, m, SheetOperationFailed(op, kind, m))
  /\ UNCHANGED <<coordVars, neonVars, storeVars, searchVars, raceVars, formVars, modalVars>>

FailInit == raised = Raised("", "", "", "", Resolved)

\* ------------------------------------------------------------------------
\* Firebase createRecord, await by await, for callers running at the same time
\* ------------------------------------------------------------------------

\* createRecord calls one caller makes, one after the other
MaxCreates == 2

Callers == {1, 2}
Seeded == 0..1

FbIdle == [pc |-> "idle", n |-> 0, exists |-> FALSE, nextId |-> 0]

\* the create call caller p is running
FbTag(p) == <<p, fbCall[p].n>>

\* getNextId on the records read: 1 when there are none, else max id + 1
FbNextId(data) ==
  IF DOMAIN data = {} THEN 1
  ELSE (CHOOSE k \in DOMAIN data : \A j \in DOMAIN data : j <= k) + 1

\* set(ref(db, records/key), newRecord)
FbPut(data, key, tag) ==
  [k \in DOMAIN data \cup {key} |-> IF k = key THEN tag ELSE data[k]]

\* createRecord is called: initDatabaseStructure issues get(recordsRef)
FbCreateBegin(p) ==
  /\ fbCall[p].pc = "idle"
  /\ fbCall[p].n < MaxCreates
  /\ fbCall' = [fbCall EXCEPT ![p].pc = "init", ![p].n = @ + 1]
  /\ UNCHANGED <<fbData, fbReturned, coordVars, neonVars, storeVars, searchVars, failVars,
                 formVars, modalVars>>

\* initDatabaseStructure: the snapshot arrives
FbInitGet(p) ==
  /\ fbCall[p].pc = "init"
  /\ fbCall' = [fbCall EXCEPT ![p].exists = (DOMAIN fbData # {}),
                              ![p].pc = IF DOMAIN fbData # {} THEN "next" ELSE "initSet"]
  /\ UNCHANGED <<fbData, fbReturned, coordVars, neonVars, storeVars, searchVars, failVars,
                 formVars, modalVars>>

\* initDatabaseStructure: set(recordsRef, {}) replaces the records node
FbInitSet(p) ==
  /\ fbCall[p].pc = "initSet"
  /\ fbData' = <<>>
  /\ fbCall' = [fbCall EXCEPT ![p].pc = "next"]
  /\ UNCHANGED <<fbReturned, coordVars, neonVars, storeVars, searchVars, failVars,
                 formVars, modalVars>>

\* getNextId: getAllRecords reads the records node
FbGetNextId(p) ==
  /\ fbCall[p].pc = "next"
  /\ fbCall' = [fbCall EXCEPT ![p].nextId = FbNextId(fbData), ![p].pc = "set"]
  /\ UNCHANGED <<fbData, fbReturned, coordVars, neonVars, storeVars, searchVars, failVars,
                 formVars, modalVars>>

\* set(recordRef, newRecord) under the key read before; createRecord returns
FbSet(p) ==
  /\ fbCall[p].pc = "set"
  /\ fbData' = FbPut(fbData, fbCall[p].nextId, FbTag(p))
  /\ fbReturned' = fbReturned \cup {FbTag(p)}
  /\ fbCall' = [fbCall EXCEPT ![p].pc = "idle"]
  /\ UNCHANGED <<coordVars, neonVars, storeVars, searchVars, failVars, formVars, modalVars>>

\* the records node holds the records seeded before, written by no caller
RaceInit ==
  /\ \E n \in Seeded : fbData = [k \in 1..n |-> <<0, k>>]
  /\ fbCall = [p \in Callers |-> FbIdle]
  /\ fbReturned = {}

RaceIdle ==
  /\ fbData = <<>>
  /\ fbCall = [p \in Callers |-> FbIdle]
  /\ fbReturned = {}

\* ------------------------------------------------------------------------
\* The record form: the images it uploads and deletes on submit.
\* An image id is a positive number, 0 stands for ''.
\* ------------------------------------------------------------------------

\* images one behaviour uploads
MaxUploads == 2

FormRecords == {1, 2}
\* record 1 has the profile image 1; record 2 has the profile image 2 or none
InitialImages == {[r \in FormRecords |-> IF r = 1 THEN 1 ELSE i] : i \in {0, 2}}

NoRemoval == [image |-> 0, editing |-> 0, was |-> 0]

\* useEffect([record]) with a record: formData is filled from it and, when it
\* has a profile image, loadImagePreview runs setPrevProfileImage(fileId)
FormEdit(r) ==
  /\ r # formRecord
  /\ formRecord' = r
  /\ formImage' = profileImage[r]
  /\ prevProfileImage' = IF profileImage[r] # 0 THEN profileImage[r] ELSE prevProfileImage
  /\ imageFile' = FALSE
  /\ UNCHANGED <<images, profileImage, uploads, removed, coordVars, neonVars, storeVars,
                 searchVars, failVars, raceVars, modalVars>>

\* onCancel: the record prop becomes null, useEffect([record]) empties formData
FormCancel ==
  /\ formRecord # 0
  /\ formRecord' = 0
  /\ formImage' = 0
  /\ imageFile' = FALSE
  /\ UNCHANGED <<prevProfileImage, images, profileImage, uploads, removed, coordVars,
                 neonVars, storeVars, searchVars, failVars, raceVars, modalVars>>

HandleImageChange ==
  /\ imageFile' = TRUE
  /\ UNCHANGED <<formRecord, formImage, prevProfileImage, images, profileImage, uploads,
                 removed, coordVars, neonVars, storeVars, searchVars, failVars, raceVars,
                 modalVars>>

HandleImageRemove ==
  /\ imageFile' = FALSE
  /\ formImage' = 0
  /\ UNCHANGED <<formRecord, prevProfileImage, images, profileImage, uploads, removed,
                 coordVars, neonVars, storeVars, searchVars, failVars, raceVars, modalVars>>

\* the id appwriteService.uploadImage gives the next image
NewImage == 2 + uploads + 1

\* handleSubmit of a valid form, up to onSubmit: the image uploaded (0 for
\* none), the image deleted (0 for none) and the profile_image submitted
SubmitImages(uploadOk, deleteOk) ==
  LET uploaded == IF imageFile /\ uploadOk THEN NewImage ELSE 0
      updated == IF uploaded # 0 THEN uploaded ELSE formImage
      deletes == (prevProfileImage # 0 \/ ~imageFile) /\ prevProfileImage # updated
      deleted == deletes /\ deleteOk /\ prevProfileImage \in images
  IN  IF imageFile /\ ~uploadOk
      THEN [uploaded |-> 0, deleted |-> 0, submitted |-> formImage]
      ELSE IF deletes /\ ~deleted
      THEN [uploaded |-> uploaded, deleted |-> 0, submitted |-> formImage]
      ELSE [uploaded |-> uploaded,
            deleted |-> IF deleted THEN prevProfileImage ELSE 0,
            submitted |-> updated]

\* handleSubmit, and onSubmit: handleUpdate of the record edited, handleCreate
\* otherwise; when the adapter call succeeded the editing record is set to
\* null and useEffect([record]) empties the form
HandleSubmit(uploadOk, deleteOk, saved) ==
  LET im == SubmitImages(uploadOk, deleteOk) IN
  /\ imageFile => uploads < MaxUploads
  /\ images' = (images \cup (IF im.uploaded # 0 THEN {im.uploaded} ELSE {}))
                 \ (IF im.deleted # 0 THEN {im.deleted} ELSE {})
  /\ uploads' = IF im.uploaded # 0 THEN uploads + 1 ELSE uploads
  /\ removed' = IF im.deleted # 0
                THEN [image |-> im.deleted, editing |-> formRecord,
                      was |-> IF formRecord # 0 THEN profileImage[formRecord] ELSE 0]
                ELSE removed
  /\ profileImage' = IF saved /\ formRecord # 0
                     THEN [profileImage EXCEPT ![formRecord] = im.submitted]
                     ELSE profileImage
  /\ formRecord' = IF saved THEN 0 ELSE formRecord
  /\ formImage' = IF saved /\ formRecord # 0 THEN 0 ELSE formImage
  /\ imageFile' = IF saved /\ formRecord # 0 THEN FALSE ELSE imageFile
  /\ UNCHANGED <<prevProfileImage, coordVars, neonVars, storeVars, searchVars, failVars,
                 raceVars, modalVars>>

FormInit ==
  /\ formRecord = 0
  /\ formImage = 0
  /\ imageFile = FALSE
  /\ prevProfileImage = 0
  /\ profileImage \in InitialImages
  /\ images = {profileImage[r] : r \in FormRecords} \ {0}
  /\ uploads = 0
  /\ removed = NoRemoval

FormIdle == FormInit /\ profileImage[2] = 0

\* ------------------------------------------------------------------------
\* The confirmation modal
\* ------------------------------------------------------------------------

\* promises showConfirmation returns in one behaviour
MaxPromises == 4

\* how the user dismisses the modal: the cancel button, Escape, a click outside
Dismissals == {"button", "escape", "outside"}

Closed == [isOpen |-> FALSE, resolveRef |-> 0]

\* resolveRef(v): settles the promise when it is pending, does nothing otherwise
Resolve(ps, ref, v) ==
  IF ref # 0 /\ ps[ref] = "pending" THEN [ps EXCEPT ![ref] = v] ELSE ps

\* showConfirmation: a new promise, whose resolve replaces resolveRef
ShowConfirmation ==
  /\ Len(promises) < MaxPromises
  /\ promises' = Append(promises, "pending")
  /\ modalState' = [isOpen |-> TRUE, resolveRef |-> Len(promises) + 1]
  /\ UNCHANGED <<coordVars, neonVars, storeVars, searchVars, failVars, raceVars, formVars>>

\* the confirm button of the open modal
HandleConfirm ==
  /\ modalState.isOpen
  /\ promises' = Resolve(promises, modalState.resolveRef, "true")
  /\ modalState' = Closed
  /\ UNCHANGED <<coordVars, neonVars, storeVars, searchVars, failVars, raceVars, formVars>>

\* onCancel of the open modal
HandleCancel(by) ==
  /\ modalState.isOpen
  /\ promises' = Resolve(promises, modalState.resolveRef, "false")
  /\ modalState' = Closed
  /\ UNCHANGED <<coordVars, neonVars, storeVars, searchVars, failVars, raceVars, formVars>>

ModalInit ==
  /\ modalState = Closed
  /\ promises = <<>>

\* the groups of variables a specification leaves at rest
RestIdle == RaceIdle /\ FormIdle /\ ModalInit

\* ------------------------------------------------------------------------
\* Specifications
\* ------------------------------------------------------------------------

\* the coordinator, with the Neon adapter and the stores at rest
Init ==
  /\ CoordInit
  /\ NeonInit
  /\ StoreInit /\ adapter = "FIREBASE"
  /\ SearchIdle
  /\ FailInit
  /\ RestIdle

Next ==
  \/ \E s \in SearchTexts : SetSearchName(s)
  \/ \E ph \in NeonPhases : HandleSearchSubmit(ph)
  \/ \E ph \in NeonPhases : ClearSearch(ph)
  \/ \E a \in ApiTypes, ph \in NeonPhases : OnSetApiType(a, ph)
  \/ \E p \in Pages, ph \in NeonPhases : HandleNavigate(p, ph)
  \/ HandleEdit
  \/ HandleCancelEdit
  \/ HandleCreate
  \/ HandleUpdate
  \/ HandleDelete
  \/ \E r \in 1..Len(calls) : AuthDone(r)
  \/ \E r \in 1..Len(calls) : AuthFail(r)
  \/ \E r \in 1..Len(calls), n \in 0..1 : ListResolve(r, n)
  \/ \E r \in 1..Len(calls) : ListReject(r)
  \/ \E m \in 1..Len(calls), ph \in NeonPhases : MutationResolve(m, ph)
  \/ \E m \in 1..Len(calls), b \in BOOLEAN, ph \in NeonPhases : DeleteResolve(m, b, ph)
  \/ \E m \in 1..Len(calls), b \in BOOLEAN, ph \in NeonPhases : ImageDone(m, b, ph)
  \/ \E m \in 1..Len(calls), ph \in NeonPhases : MutationReject(m, ph)
  \/ HandleCreateEmployeeTable
  \/ \E m \in 1..Len(calls) : TableResolve(m)
  \/ \E m \in 1..Len(calls) : TableRefuse(m)
  \/ \E m \in 1..Len(calls) : TableReject(m)

Spec == Init /\ [][Next]_vars

\* one makeAuthenticatedRequest after the other on the Neon adapter
NeonSpecInit ==
  /\ CoordInit /\ ~useMockData
  /\ NeonInit
  /\ StoreInit /\ adapter = "FIREBASE"
  /\ SearchIdle
  /\ FailInit
  /\ RestIdle

NeonNext ==
  \/ \E d \in TickSteps : NeonTick(d)
  \/ \E b \in BOOLEAN : MakeAuthenticatedRequest(b)
  \/ \E e \in ExpiresAtMillis : AuthOk(e)
  \/ AuthError
  \/ \E st \in Statuses : Respond(st)
  \/ CancelRequest
  \/ Return

NeonSpec == NeonSpecInit /\ [][NeonNext]_vars

\* operations on the record store of one adapter
StoreSpecInit ==
  /\ CoordInit /\ ~useMockData
  /\ NeonInit
  /\ StoreInit
  /\ SearchIdle
  /\ FailInit
  /\ RestIdle

StoreNext ==
  \/ \E data \in CreateInputs : CreateRecord(data)
  \/ \E id \in TargetIds : GetRecordById(id)
  \/ \E id \in TargetIds, data \in UpdateInputs : UpdateRecord(id, data)
  \/ \E id \in TargetIds : DeleteRecord(id)
  \/ GetAllRecords
  \/ \E recordsData \in Batches : CreateMultipleRecords(recordsData)
  \/ \E recordsData \in Batches : ModifyMultipleRecords(recordsData)
  \/ \E ok \in BOOLEAN : InitSheet(ok)

StoreSpec == StoreSpecInit /\ [][StoreNext]_vars

\* searches of one value on one table of stored names
SearchSpecInit ==
  /\ CoordInit /\ ~useMockData
  /\ NeonInit
  /\ StoreInit /\ adapter = "FIREBASE"
  /\ SearchInit
  /\ FailInit
  /\ RestIdle

SearchNext ==
  \/ \E matchType \in MatchTypes : FirebaseSearchRecords(matchType)
  \/ NeonRawSearchRecords
  \/ \E matchType \in ScriptMatchTypes : DoGetSearch(matchType)

SearchSpec == SearchSpecInit /\ [][SearchNext]_vars

\* adapter operations whose backend call fails
FailSpecInit ==
  /\ CoordInit /\ ~useMockData
  /\ NeonInit
  /\ StoreInit /\ adapter = "FIREBASE"
  /\ SearchIdle
  /\ FailInit
  /\ RestIdle

FailNext ==
  \/ \E op \in AdapterOps, kind \in FailureKinds, m \in BackendMessages : NeonFail(op, kind, m)
  \/ \E op \in AdapterOps, kind \in FailureKinds, m \in BackendMessages : SheetFail(op, kind, m)

FailSpec == FailSpecInit /\ [][FailNext]_vars

\* createRecord calls of two callers on the Firebase adapter, step by step
RaceSpecInit ==
  /\ CoordInit /\ ~useMockData
  /\ NeonInit
  /\ StoreInit /\ adapter = "FIREBASE"
  /\ SearchIdle
  /\ FailInit
  /\ RaceInit /\ FormIdle /\ ModalInit

RaceNext ==
  \/ \E p \in Callers : FbCreateBegin(p)
  \/ \E p \in Callers : FbInitGet(p)
  \/ \E p \in Callers : FbInitSet(p)
  \/ \E p \in Callers : FbGetNextId(p)
  \/ \E p \in Callers : FbSet(p)

RaceSpec == RaceSpecInit /\ [][RaceNext]_vars

\* the record form: select for edit, cancel, choose or remove an image, submit
FormSpecInit ==
  /\ CoordInit /\ ~useMockData
  /\ NeonInit
  /\ StoreInit /\ adapter = "FIREBASE"
  /\ SearchIdle
  /\ FailInit
  /\ RaceIdle /\ FormInit /\ ModalInit

FormNext ==
  \/ \E r \in FormRecords : FormEdit(r)
  \/ FormCancel
  \/ HandleImageChange
  \/ HandleImageRemove
  \/ \E uploadOk \in BOOLEAN, deleteOk \in BOOLEAN, saved \in BOOLEAN :
       HandleSubmit(uploadOk, deleteOk, saved)

FormSpec == FormSpecInit /\ [][FormNext]_vars

\* the confirmation modal: show, confirm, cancel
ModalSpecInit ==
  /\ CoordInit /\ ~useMockData
  /\ NeonInit
  /\ StoreInit /\ adapter = "FIREBASE"
  /\ SearchIdle
  /\ FailInit
  /\ RaceIdle /\ FormIdle /\ ModalInit

ModalNext ==
  \/ ShowConfirmation
  \/ HandleConfirm
  \/ \E by \in Dismissals : HandleCancel(by)

ModalSpec == ModalSpecInit /\ [][ModalNext]_vars

\* ------------------------------------------------------------------------
\* Coordinator: properties
\* ------------------------------------------------------------------------

\* list / search calls whose promise has not settled and whose token, if the
\* adapter holds one, has not been cancelled
Live ==
  {r \in Pending(ListKinds) : ~(calls[r].cancelReq /\ calls[r].tok # 0)}

\* create / update / delete calls the adapter has not answered
InFlight == Pending(MutationKinds)

\* call r settles in this step
Settles(r) == calls[r].status = "pending" /\ calls'[r] = Settled

\* C1: when a second list request was issued before the first one settled,
\* the first one's late result never overwrites the record list, whichever
\* adapter served it.
C1_LateResultDropped ==
  [][\A r \in Pending({"list"}) :
       (/\ cancelTokenRef > r
        /\ calls[cancelTokenRef].kind = "list"
        /\ Settles(r)) => records' = records]_vars

\* C2: at every moment at most one list / search request of the coordinator
\* is live.
C2_AtMostOneLive == Cardinality(Live) <= 1

\* the cancellation of call r is delivered in this step: a handler cancelled
\* the current token, which r's pending request holds
CancelDelivered(r) ==
  /\ r \in Cancel(Cur).micro
  /\ cancelTokenRef' # cancelTokenRef
  /\ Settles(r)

\* C3: the rejection of a cancelled list or search request is swallowed: it
\* never sets the error message.
C3_CancelSwallowed ==
  [][\A r \in Pending(ListKinds) :
       CancelDelivered(r) => error' \in {error, ""}]_vars

\* C4: never two create / update / delete requests in flight at once, and
\* while one is in flight the loading flag stays true.
C4_MutationsSerialized ==
  /\ Cardinality(InFlight) <= 1
  /\ InFlight # {} => loading

\* C5: a follow-up reload is issued only after the handler's adapter call
\* (and the image removal of a delete) succeeded, and no create / update /
\* delete call holds the coordinator's cancel token or is cancelled by it.
C5_ReloadAfterSuccess ==
  /\ \A r \in Pending(ListKinds) : calls[r].parent # "" => calls[r].after = "ok"
  /\ \A m \in 1..Len(calls) :
       calls[m].kind \in MutationKinds => calls[m].tok = 0 /\ ~calls[m].cancelReq

\* a reload awaited by a create / update / delete handler is pending while
\* the handler's own adapter call has been answered
C5_Witness ==
  \E r \in Pending(ListKinds) :
    /\ calls[r].parent \in MutationKinds
    /\ InFlight = {}
    /\ Len(calls) = 3

\* C6: every request goes to the adapter that was active (or was selected)
\* at the user action that caused it.
C6_ActiveAdapter ==
  \A r \in 1..Len(calls) :
    calls[r].status = "pending" => calls[r].api = calls[r].want

\* ------------------------------------------------------------------------
\* Neon REST adapter: properties
\* ------------------------------------------------------------------------

\* C7 as stated: a 401 triggers exactly one token refresh and exactly one
\* retry, and when the retry answers 401 too the call fails with the
\* authentication failure.
C7_OneRefreshOneRetry ==
  (pc = "done" /\ got401) =>
    /\ refreshPosts = 1
    /\ retries = 1
    /\ retry401 => result = "Failed to authenticate with NEON API"

\* C7: a 401 of the first request triggers exactly one post to the auth
\* endpoint; the retry is sent at most once, namely when that refresh
\* succeeded and the call was not cancelled meanwhile; a failed refresh ends
\* the call with the authentication failure and no retry; a retry answered
\* 401 ends the call with the retry's own 401 error, without any further
\* refresh or retry.
C7_OneRefreshAtMostOneRetry ==
  /\ refreshPosts = (IF got401 THEN 1 ELSE 0)
  /\ retries <= refreshPosts
  /\ pc = "refresh" => retries = 0
  /\ pc = "retry" => retries = 1
  /\ retry401 => got401 /\ retries = 1
  /\ (pc = "done" /\ got401) =>
       /\ result \in {"ok", AxiosMessage(401), AxiosMessage(500)} => retries = 1
       /\ result = "Failed to authenticate with NEON API" => retries = 0
       /\ retry401 <=> result = AxiosMessage(401)
       /\ result # "NEON API request failed"

\* the request and its one retry both answered 401 and the call has ended
C7_Witness ==
  /\ pc = "done"
  /\ got401 /\ retry401
  /\ refreshPosts = 1 /\ retries = 1

\* the lifetimes a cached token can have been stored with
Lifetimes == {e \in ExpiresAtMillis : e # 0} \cup {DefaultLifetimeMs}

\* C8: getAccessToken returns the cached token without a post to the auth
\* endpoint exactly when a token is cached and its stored expiry is more than
\* 5 minutes after the current time; otherwise it posts, and a token the
\* endpoint issues is cached together with its expiry.
C8_TokenCache ==
  [][/\ (pc = "idle" /\ pc' # "idle") =>
          IF currentAccessToken # 0 /\ tokenExpiresAt > now + BufferMs
          THEN /\ pc' = "request" /\ authPosts' = 0
               /\ bearer' = currentAccessToken
               /\ UNCHANGED <<currentAccessToken, tokenExpiresAt, issued>>
          ELSE pc' = "auth" /\ authPosts' = 1
     /\ issued' # issued =>
          /\ currentAccessToken' = issued' /\ bearer' = issued'
          /\ tokenExpiresAt' - now' \in Lifetimes]_vars

\* a request was sent with the cached token, no post to the auth endpoint
\* made, after the clock had advanced
C8_Witness ==
  /\ pc = "request"
  /\ authPosts = 0
  /\ bearer = currentAccessToken /\ bearer # 0
  /\ tokenExpiresAt > now + BufferMs
  /\ now > 0

\* ------------------------------------------------------------------------
\* Record stores: properties
\* ------------------------------------------------------------------------

\* what getById of the adapter under test returns now
Stored(id) == GetOf(adapter, rows, id).ret

\* C9: create(fields) followed by getById(returned id) returns a record equal
\* to the supplied one on all supplied fields, for every adapter.
C9_CreateThenGet ==
  (last.op = "create" /\ last.ok) =>
    \A f \in DOMAIN last.data :
      f \in DOMAIN Stored(last.id) /\ Stored(last.id)[f] = last.data[f]

Merging == {"FIREBASE", "GOOGLE_SHEETS_MOCK", "NEON", "APPWRITE"}

C11_DeleteThenGet ==
  (last.op = "delete" /\ last.ok) => Stored(last.id) = Nothing

\* C12: update(id, fields) on an id that is not stored fails and leaves the
\* stored records unchanged, for every adapter.
C12_UpdateMissingFails ==
  [][(ops' = ops + 1 /\ last'.op = "update" /\ last'.before = Nothing) =>
       (~last'.ok /\ rows' = rows)]_vars

\* C13: delete(id) on an id that is not stored fails and leaves the stored
\* records unchanged, for every adapter.
C13_DeleteMissingFails ==
  [][(ops' = ops + 1 /\ last'.op = "delete" /\ last'.before = Nothing) =>
       (~last'.ok /\ rows' = rows)]_vars

\* C14: after any sequence of create, batch create, batch modify, update and
\* delete on one backend, no two stored records have the same id.
C14_UniqueIds ==
  \A i \in 1..Len(rows) : \A j \in 1..Len(rows) :
    i # j => Get(rows[i], "id") # Get(rows[j], "id")

\* C15: the id a create assigns is never the id of a record that was deleted
\* before on the same backend.
C15_NoIdReuse ==
  (last.op = "create" /\ last.ok) => Get(rows[Len(rows)], "id") \notin retired

\* C20: the spreadsheet adapter constructed without script URL and script id
\* serves every operation from the mock data and sends no network request.
C20_MockSendsNothing ==
  adapter = "GOOGLE_SHEETS_MOCK" => requests = 0

\* two characters that differ at most in case
SameLetter(c, d) == c = d \/ {c, d} = {"a", "A"}

EqualsIgnoringCase(s, q) ==
  Len(s) = Len(q) /\ \A k \in 1..Len(q) : SameLetter(s[k], q[k])

ContainsIgnoringCase(s, q) ==
  \E i \in 1..(Len(s) + 1) :
    /\ i + Len(q) - 1 <= Len(s)
    /\ \A k \in 1..Len(q) : SameLetter(s[i + k - 1], q[k])

\* C16: a contains search on the name, by the Firebase adapter's client-side
\* filter or by the script's searchRecordsByQuery with the pattern %q%,
\* returns exactly the stored records whose name contains the value searched
\* for, case ignored: none is missing and none is extra.
C16_ContainsSearch ==
  (found.matchType = "contains" /\ found.adapter \in {"FIREBASE", "GOOGLE_SHEETS"})
    => found.ids = {id \in RecordIds : ContainsIgnoringCase(table[id], query)}

\* the script has searched with %q% and returned one of two records, which
\* holds the value only in another case
C16_Witness ==
  /\ found.adapter = "GOOGLE_SHEETS"
  /\ found.matchType = "contains"
  /\ Cardinality(found.ids) = 1
  /\ query # <<>>
  /\ \A id \in found.ids : ~Includes(table[id], query)

\* C17: an exact search returns all and only the stored records whose field
\* equals the value searched for when compared with case ignored, on the
\* Firebase adapter, the raw Neon adapter and the script.
C17_ExactSearch ==
  found.matchType = "exact"
    => found.ids = {id \in RecordIds : EqualsIgnoringCase(table[id], query)}

\* C18: when the backend call fails, the create, update, delete and list
\* operations of the spreadsheet and Neon adapters throw an error whose
\* message contains the backend's own message.
C18_ErrorWrapsBackend ==
  (raised.op \in {"create", "update", "delete", "list"} /\ raised.backend # "")
    => (raised.threw /\ Wraps(raised.error, raised.backend))

\* C19: every failure of a coordinator action (load, search, create, update,
\* delete, create table) that is not a cancellation ends with a non-empty
\* user-visible error message.
C19_FailureShown ==
  [][((\E r \in 1..Len(calls) : ListReject(r) \/ AuthFail(r))
       \/ (\E m \in 1..Len(calls), ph \in NeonPhases :
             MutationReject(m, ph) \/ ImageDone(m, FALSE, ph))
       \/ (\E m \in 1..Len(calls) : TableReject(m) \/ TableRefuse(m)))
      => error' # ""]_vars

\* C21: the spreadsheet adapter's initSheet, posting the action 'init' to the
\* script, leaves the sheet with a header row when it was absent and changes
\* nothing when the header row is present.
C21_InitWritesHeader ==
  [][(ops' = ops + 1 /\ last'.op = "init" /\ last'.ok /\ adapter = "GOOGLE_SHEETS")
       => (header' /\ rows' = rows)]_vars

\* C22: the loading flag is true whenever a list or search request the
\* coordinator issued is still in flight: the completion of a cancelled
\* request never resets it while the successor is pending.
C22_LoadingWhileLive == Live # {} => loading

\* C23: createRecord calls on the Firebase adapter whose steps interleave end
\* with every record stored under an id of its own: no write overwrites
\* another.
C23_BothStored ==
  \A t \in fbReturned : \E k \in DOMAIN fbData : fbData[k] = t

\* C24: submitting the record form deletes a stored image only if it was the
\* profile image of the record being edited in that submission.
C24_DeletesOwnImageOnly ==
  removed.image # 0 => (removed.editing # 0 /\ removed.was = removed.image)

\* C30: every promise showConfirmation returned is resolved when the user
\* confirms or cancels, also when showConfirmation is called again while the
\* modal is open: a pending promise is the one the open modal resolves.
C30_PendingIsResolvable ==
  \A p \in 1..Len(promises) :
    promises[p] = "pending" => (modalState.isOpen /\ modalState.resolveRef = p)

StartsWithIgnoringCase(s, q) ==
  Len(q) <= Len(s) /\ \A k \in 1..Len(q) : SameLetter(s[k], q[k])

EndsWithIgnoringCase(s, q) ==
  Len(q) <= Len(s) /\ \A k \in 1..Len(q) : SameLetter(s[Len(s) - Len(q) + k], q[k])

\* C25: in the script's searchRecordsByQuery a value 'v%' matches exactly the
\* records whose field starts with v and a value '%v' exactly those whose
\* field ends with v, case ignored, for every field value, also one in which
\* v occurs more than once (v not empty and holding no % itself).
C25_StartsAndEndsWith ==
  (/\ found.adapter = "GOOGLE_SHEETS"
   /\ query # <<>>
   /\ \A k \in 1..Len(query) : query[k] # "%") =>
    /\ found.matchType = "startsWith" =>
         found.ids = {id \in RecordIds : StartsWithIgnoringCase(table[id], query)}
    /\ found.matchType = "endsWith" =>
         found.ids = {id \in RecordIds : EndsWithIgnoringCase(table[id], query)}

\* the stored rows as a set
RowSet(rs) == {rs[i] : i \in 1..Len(rs)}

\* C26: modifyMultipleRecords is an upsert keyed by id: exporting the same
\* list of records, each with its id, a second time leaves the same set of
\* rows as exporting it once.
C26_ExportTwice ==
  [][(/\ adapter \in SheetAdapters
      /\ last.op = "modify" /\ last.ok
      /\ ops' = ops + 1
      /\ last'.op = "modify" /\ last'.ok
      /\ last'.data = last.data
      /\ \A i \in 1..Len(last.data) : Get(last.data[i], "id") # Null)
       => RowSet(rows') = RowSet(rows)]_vars

\* C27: the error message and the success message of a create, update or
\* delete are never both non-empty, whatever loads, searches and mutations
\* ran and however they ended.
C27_ErrorOrSuccess == ~(error # "" /\ success \in {SuccessMsg(k) : k \in MutationKinds})

\* C28: clearSearch, run while a search text is set, empties the text and
\* issues an unfiltered list request, never a search.
C28_ClearIssuesList == [][(searchName # <<>> /\ searchName' = <<>> /\ Len(calls') = Len(calls) + 1) => calls'[Len(calls')].kind = "list"]_vars

\* C29: when the image removal that follows a successful adapter delete has
\* settled, with or without an error, handleDelete reloads the list (and
\* shows its success message once the reload is over).
C29_ReloadAfterImage == [][\A m \in 1..Len(calls) : (calls[m].kind = "delete" /\ calls[m].phase = "image" /\ calls'[m] = Settled) => (Len(calls') = Len(calls) + 1 /\ calls'[Len(calls')].parent = "delete" /\ error' = "")]_vars

====
